---- MODULE Spec2Model ----
(***************************************************************************)
(* A model of the two scripts of unms-to-zabbix-sync:                      *)
(*   check_host_in_zbx_by_ip.py  (specification Spec)                      *)
(*   sync.py                     (specification SpecSync)                  *)
(* Python strings whose characters matter (paths, URLs, IP cells) are      *)
(* sequences of one-character strings; Python values of several types are  *)
(* wrapped in records tagged by "kind".                                    *)
(***************************************************************************)
EXTENDS Integers, Sequences, FiniteSets, TLC

VARIABLES
    \* ---- check_host_in_zbx_by_ip.py: check_ips_in_zabbix ----
    pc,            \* position inside check_ips_in_zabbix
    excel_file,    \* argument: path of the input spreadsheet
    file_exists,   \* environment: os.path.exists(excel_file)
    zabbix_url,    \* argument: the Zabbix URL (a str or None)
    output_file,   \* local: path of the result file
    df,            \* local: the DataFrame, [columns, rows]
    sheet,         \* the DataFrame as pd.read_excel returned it
    hosts,         \* local: the reply of zapi.host.get
    ip_dict,       \* local: IP -> host name
    update_count,  \* local: number of matched rows
    api_calls,     \* environment: calls made on the Zabbix API, in order
    written,       \* environment: files written by df.to_excel, in order
    log,           \* environment: records emitted through logger
    ret,           \* return value of check_ips_in_zabbix
    \* ---- sync.py ----
    sync_pc,       \* which function of sync.py ran last
    requests,      \* environment: endpoints requests.get was called with
    response,      \* environment: what requests.get produced
    devices,       \* return value of get_unms_devices
    printed,       \* environment: lines printed to the console
    files,         \* environment: files written by sync.py, in order
    json_data,     \* argument of extract_device_data / content of the JSON file
    extracted,     \* return value of extract_device_data, or the rows exported
    sync_ret       \* outcome of the last function of sync.py

zbx_vars == <<pc, excel_file, file_exists, zabbix_url, output_file, df, sheet,
              hosts, ip_dict, update_count, api_calls, written, log, ret>>
sync_vars == <<sync_pc, requests, response, devices, printed, files, json_data, extracted,
               sync_ret>>
vars == <<zbx_vars, sync_vars>>

\* ------------------------------------------------------------------ bounds
MaxRows == 2
MaxHosts == 2
MaxDevices == 2
MaxIpLen == 3

\* ------------------------------------------------------------ Python values
PyNone == [kind |-> "None"]
NaN == [kind |-> "nan"]
Str(s) == [kind |-> "str", s |-> s]
Dict(d) == [kind |-> "dict", d |-> d]
List(l) == [kind |-> "list", l |-> l]

SeqsUpTo(S, n) == UNION {[1..k -> S] : k \in 0..n}

Whitespace == {" "}

RECURSIVE lstrip(_)
lstrip(s) == IF s # <<>> /\ Head(s) \in Whitespace THEN lstrip(Tail(s)) ELSE s

RECURSIVE rstrip(_)
rstrip(s) ==
    IF s # <<>> /\ s[Len(s)] \in Whitespace
    THEN rstrip(SubSeq(s, 1, Len(s) - 1))
    ELSE s

\* Variant of strip: only leading whitespace removed.
strip_lstrip_only(s) == lstrip(s)

\* str.strip(): leading and trailing whitespace removed.
strip(s) == rstrip(lstrip(s))

\* str(x) for a cell value: a float NaN prints as "nan".
str(x) == IF x.kind = "nan" THEN <<"n", "a", "n">> ELSE x.s

\* s.find(c): first index of c in s (1-based), 0 when absent.
find(s, c) ==
    IF \E i \in 1..Len(s) : s[i] = c
    THEN CHOOSE i \in 1..Len(s) : s[i] = c /\ \A j \in 1..(i - 1) : s[j] # c
    ELSE 0

\* s.rfind(c): last index of c in s (1-based), 0 when absent.
rfind(s, c) ==
    IF \E i \in 1..Len(s) : s[i] = c
    THEN CHOOSE i \in 1..Len(s) : s[i] = c /\ \A j \in (i + 1)..Len(s) : s[j] # c
    ELSE 0

\* ------------------------------------------------------- urllib.parse.urlparse
Letters == {"h", "z"}
SchemeChars == Letters \cup {"+", "-", "."}

\* The (scheme, netloc) of urlparse(url): the scheme is the text before the first
\* ":" when it starts with a letter and holds scheme characters only; the netloc
\* is what follows a leading "//" up to the next "/".
urlparse(url) ==
    IF url.kind # "str" THEN [scheme |-> <<>>, netloc |-> <<>>]
    ELSE
    LET u == url.s
        i == find(u, ":")
        hasScheme == /\ i > 1
                     /\ u[1] \in Letters
                     /\ \A k \in 1..(i - 1) : u[k] \in SchemeChars
        scheme == IF hasScheme THEN SubSeq(u, 1, i - 1) ELSE <<>>
        rest == IF hasScheme THEN SubSeq(u, i + 1, Len(u)) ELSE u
        hasNetloc == Len(rest) >= 2 /\ rest[1] = "/" /\ rest[2] = "/"
        after == IF hasNetloc THEN SubSeq(rest, 3, Len(rest)) ELSE <<>>
        delim == find(after, "/")
        netloc == IF delim = 0 THEN after ELSE SubSeq(after, 1, delim - 1)
    IN [scheme |-> scheme, netloc |-> netloc]

\* Variant of validate_zabbix_url: the netloc is not looked at.
validate_scheme_only(url) == urlparse(url).scheme # <<>>

\* Variant of validate_zabbix_url: the scheme is not looked at.
validate_netloc_only(url) == urlparse(url).netloc # <<>>

validate_zabbix_url(url) ==
    LET result == urlparse(url)
    IN result.scheme # <<>> /\ result.netloc # <<>>

\* ----------------------------------------------------------- os.path.splitext
\* (root, ext): ext starts at the last "." of the last path component, unless
\* that component has only leading dots before it.
splitext(p) ==
    LET sepIndex == rfind(p, "/")
        dotIndex == rfind(p, ".")
        split == /\ dotIndex > sepIndex
                 /\ \E k \in (sepIndex + 1)..(dotIndex - 1) : p[k] # "."
    IN IF split
       THEN [root |-> SubSeq(p, 1, dotIndex - 1), ext |-> SubSeq(p, dotIndex, Len(p))]
       ELSE [root |-> p, ext |-> <<>>]

\* datetime.now().strftime("%Y%m%d"): eight digits.
timestamp == <<"2", "0", "2", "5", "0", "3", "1", "8">>

ResultInfix == <<"_", "r", "e", "s", "u", "l", "t", "_">>

\* Variant of output_name: the suffix is left out.
output_name_overwrite(path) == splitext(path).root \o splitext(path).ext

\* output_file = f"{filename}_result_{timestamp}{ext}"
output_name(path) ==
    splitext(path).root \o ResultInfix \o timestamp \o splitext(path).ext

\* ------------------------------------------------------------------- inputs
PathSamples ==
    { <<"d", ".", "x">>,            \* d.x
      <<"a", ".", "b", "/", "d">> } \* a.b/d  (no extension)

UrlSamples ==
    { Str(<<"h", ":", "/", "/", "z">>),       \* h://z    well-formed
      Str(<<"z", "/", "h">>),                 \* z/h      no scheme, no netloc
      Str(<<"/", "/", "z">>),                 \* //z      no scheme
      Str(<<"h", ":", "z">>),                 \* h:z      no netloc
      Str(<<"h", ":", "/", "/">>),            \* h://     empty netloc
      PyNone }                                \* ZABBIX_SERVER unset

EXIST == <<"e", "x", "i", "s", "t">>
NOT_EXIST == <<"n", "o", "t", " ", "e", "x", "i", "s", "t">>
OLD == <<"o", "l", "d">>

\* Values pd.read_excel yields for an ip_address cell: NaN for an empty cell,
\* the text otherwise.
IpCells == { NaN, Str(<<" ">>), Str(<<"1">>), Str(<<" ", "2", " ">>) }

ColumnSets == { {"ip_address"}, {"ip_address", "zabbix"}, {"name"} }

CellsOf(col) ==
    CASE col = "ip_address" -> IpCells
      [] col = "zabbix" -> { Str(OLD) }
      [] OTHER -> { Str(<<"d">>) }

RowsOf(C) == { r \in [C -> IpCells \cup {Str(OLD), Str(<<"d">>)}] :
                 \A c \in C : r[c] \in CellsOf(c) }

Sheets == UNION { { [columns |-> C, rows |-> rs] : rs \in SeqsUpTo(RowsOf(C), MaxRows) } :
                  C \in ColumnSets }

\* Interfaces as zapi.host.get returns them: a mapping that may lack "ip".
NoIp == [ip |-> PyNone, has_ip |-> FALSE]
Ip(s) == [ip |-> Str(s), has_ip |-> TRUE]

InterfaceLists ==
    { <<>>,
      << NoIp, Ip(<<>>), Ip(<<"2">>) >>,
      << Ip(<<"1">>) >>,
      << Ip(<<"2">>), Ip(<<"1">>) >> }

\* What one host carries besides its name: no "interfaces" key, or a list.
HostBodies == { [has_interfaces |-> FALSE, interfaces |-> <<>>] }
              \cup { [has_interfaces |-> TRUE, interfaces |-> l] : l \in InterfaceLists }

Digits == <<"1", "2", "3", "4", "5">>

HostName(i) == <<"h", Digits[i]>>

\* Replies of host.get: host technical names are unique in Zabbix.
HostReplies ==
    { [i \in 1..Len(bs) |-> [host |-> HostName(i),
                             has_interfaces |-> bs[i].has_interfaces,
                             interfaces |-> bs[i].interfaces]] :
      bs \in SeqsUpTo(HostBodies, MaxHosts) }

\* --------------------------------------------- check_ips_in_zabbix: helpers
NoFrame == [columns |-> {}, rows |-> <<>>]
EmptyDict == [k \in {} |-> <<>>]

LogRecord(level, msg) == [level |-> level, msg |-> msg]

\* bool(x) of a str or None.
truthy(x) == x.kind = "str" /\ x.s # <<>>

\* df['zabbix'] = "": the column is added with the empty string in every row.
add_zabbix_column(frame) ==
    [columns |-> frame.columns \cup {"zabbix"},
     rows |-> [i \in 1..Len(frame.rows) |->
                 [c \in frame.columns \cup {"zabbix"} |->
                    IF c = "zabbix" THEN Str(<<>>) ELSE frame.rows[i][c]]]]

\* Variant of index_put: an IP already indexed keeps its host.
index_put_first_wins(d, k, v) ==
    IF k \in DOMAIN d THEN d
    ELSE [x \in DOMAIN d \cup {k} |-> IF x = k THEN v ELSE d[x]]

\* ip_dict[interface['ip']] = host['host']
index_put(d, k, v) == [x \in DOMAIN d \cup {k} |-> IF x = k THEN v ELSE d[x]]

\* for interface in host['interfaces']: ...
RECURSIVE index_interfaces(_, _, _)
index_interfaces(d, host, ifs) ==
    IF ifs = <<>> THEN d
    ELSE LET interface == Head(ifs)
             d2 == IF interface.has_ip /\ truthy(interface.ip)
                   THEN index_put(d, interface.ip.s, host.host)
                   ELSE d
         IN index_interfaces(d2, host, Tail(ifs))

\* for host in hosts: ...
RECURSIVE build_ip_dict(_, _)
build_ip_dict(d, hs) ==
    IF hs = <<>> THEN d
    ELSE LET host == Head(hs)
             d2 == IF host.has_interfaces /\ host.interfaces # <<>>
                   THEN index_interfaces(d, host, host.interfaces)
                   ELSE d
         IN build_ip_dict(d2, Tail(hs))

\* The body of the loop over df.iterrows() for one row.
annotate_row(row, d) ==
    LET ip == strip(str(row["ip_address"]))
    IN IF ip # <<>>
       THEN IF ip \in DOMAIN d
            THEN [row EXCEPT !["zabbix"] = Str(EXIST)]
            ELSE [row EXCEPT !["zabbix"] = Str(NOT_EXIST)]
       ELSE row

row_matches(row, d) ==
    LET ip == strip(str(row["ip_address"]))
    IN ip # <<>> /\ ip \in DOMAIN d

\* ---------------------------------------------- check_ips_in_zabbix: actions
SyncIdle ==
    /\ sync_pc = "idle"
    /\ requests = <<>>
    /\ response = PyNone
    /\ devices = PyNone
    /\ printed = <<>>
    /\ files = <<>>
    /\ json_data = PyNone
    /\ extracted = PyNone
    /\ sync_ret = "none"

Init ==
    /\ pc = "start"
    /\ excel_file \in PathSamples
    /\ file_exists \in BOOLEAN
    /\ zabbix_url \in UrlSamples
    /\ output_file = <<>>
    /\ df = NoFrame
    /\ sheet = NoFrame
    /\ hosts = <<>>
    /\ ip_dict = EmptyDict
    /\ update_count = 0
    /\ api_calls = <<>>
    /\ written = <<>>
    /\ log = <<>>
    /\ ret = "running"
    /\ SyncIdle

\* return False after logger.error(...)
Fail(msg) ==
    /\ log' = Append(log, LogRecord("ERROR", msg))
    /\ ret' = "False"
    /\ pc' = "done"

\* Lines 33-44: the existence check and the output name.
CheckFile ==
    /\ pc = "start"
    /\ IF ~file_exists
       THEN /\ Fail("file does not exist")
            /\ UNCHANGED output_file
       ELSE /\ output_file' = output_name(excel_file)
            /\ log' = Append(log, LogRecord("INFO", "reading data"))
            /\ pc' = "read_excel"
            /\ UNCHANGED ret
    /\ UNCHANGED <<excel_file, file_exists, zabbix_url, df, sheet, hosts, ip_dict,
                   update_count, api_calls, written>>
    /\ UNCHANGED sync_vars

\* Line 45: df = pd.read_excel(excel_file).
ReadExcel ==
    /\ pc = "read_excel"
    /\ \E s \in Sheets : df' = s /\ sheet' = s
    /\ pc' = "check_column"
    /\ UNCHANGED <<excel_file, file_exists, zabbix_url, output_file, hosts, ip_dict,
                   update_count, api_calls, written, log, ret>>
    /\ UNCHANGED sync_vars

\* Line 45 raising (the file is no spreadsheet), caught at lines 104-106.
ReadExcelRaises ==
    /\ pc = "read_excel"
    /\ Fail("error processing file")
    /\ UNCHANGED <<excel_file, file_exists, zabbix_url, output_file, df, sheet, hosts,
                   ip_dict, update_count, api_calls, written>>
    /\ UNCHANGED sync_vars

\* Lines 47-54: the ip_address column must exist; the zabbix column is created.
CheckColumn ==
    /\ pc = "check_column"
    /\ IF "ip_address" \notin df.columns
       THEN /\ Fail("column ip_address not found")
            /\ UNCHANGED df
       ELSE /\ df' = IF "zabbix" \notin df.columns THEN add_zabbix_column(df) ELSE df
            /\ pc' = "validate_url"
            /\ UNCHANGED <<log, ret>>
    /\ UNCHANGED <<excel_file, file_exists, zabbix_url, output_file, sheet, hosts,
                   ip_dict, update_count, api_calls, written>>
    /\ UNCHANGED sync_vars

\* Lines 56-62: the URL check.
ValidateUrl ==
    /\ pc = "validate_url"
    /\ IF ~validate_zabbix_url(zabbix_url)
       THEN Fail("invalid Zabbix URL")
       ELSE /\ log' = Append(log, LogRecord("INFO", "connecting"))
            /\ pc' = "connect"
            /\ UNCHANGED ret
    /\ UNCHANGED <<excel_file, file_exists, zabbix_url, output_file, df, sheet, hosts,
                   ip_dict, update_count, api_calls, written>>
    /\ UNCHANGED sync_vars

\* The remote call made at each position, and the position after it.
RemoteCall(p) ==
    CASE p = "connect" -> "ZabbixAPI"
      [] p = "login" -> "login"
      [] p = "api_version" -> "api_version"
      [] p = "host_get" -> "host.get"

AfterCall(p) ==
    CASE p = "connect" -> "login"
      [] p = "login" -> "api_version"
      [] p = "api_version" -> "host_get"
      [] p = "host_get" -> "build_index"

\* Lines 63-65: ZabbixAPI(zabbix_url), zapi.login(...), zapi.api_version().
Connect ==
    /\ pc \in {"connect", "login", "api_version"}
    /\ api_calls' = Append(api_calls, RemoteCall(pc))
    /\ pc' = AfterCall(pc)
    /\ log' = IF pc = "api_version"
              THEN log \o <<LogRecord("INFO", "connected"),
                            LogRecord("INFO", "retrieving hosts")>>
              ELSE log
    /\ UNCHANGED <<excel_file, file_exists, zabbix_url, output_file, df, sheet, hosts,
                   ip_dict, update_count, written, ret>>
    /\ UNCHANGED sync_vars

\* Lines 69-72: hosts = zapi.host.get(...).
HostGet ==
    /\ pc = "host_get"
    /\ api_calls' = Append(api_calls, RemoteCall(pc))
    /\ \E reply \in HostReplies : hosts' = reply
    /\ pc' = AfterCall(pc)
    /\ UNCHANGED <<excel_file, file_exists, zabbix_url, output_file, df, sheet, ip_dict,
                   update_count, written, log, ret>>
    /\ UNCHANGED sync_vars

\* Any of the calls of lines 63-72 raising, caught at lines 104-106.
RemoteCallRaises ==
    /\ pc \in {"connect", "login", "api_version", "host_get"}
    /\ api_calls' = Append(api_calls, RemoteCall(pc))
    /\ Fail("error processing file")
    /\ UNCHANGED <<excel_file, file_exists, zabbix_url, output_file, df, sheet, hosts,
                   ip_dict, update_count, written>>
    /\ UNCHANGED sync_vars

\* Lines 74-83: the IP -> host dictionary.
BuildIndex ==
    /\ pc = "build_index"
    /\ ip_dict' = build_ip_dict(EmptyDict, hosts)
    /\ log' = Append(log, LogRecord("INFO", "retrieved unique IP addresses"))
    /\ pc' = "annotate"
    /\ UNCHANGED <<excel_file, file_exists, zabbix_url, output_file, df, sheet, hosts,
                   update_count, api_calls, written, ret>>
    /\ UNCHANGED sync_vars

\* Lines 85-99: every row is tagged.
Annotate ==
    /\ pc = "annotate"
    /\ df' = [df EXCEPT !.rows = [i \in 1..Len(df.rows) |-> annotate_row(df.rows[i], ip_dict)]]
    /\ update_count' = Cardinality({i \in 1..Len(df.rows) : row_matches(df.rows[i], ip_dict)})
    /\ log' = Append(log, LogRecord("INFO", "saving results"))
    /\ pc' = "save"
    /\ UNCHANGED <<excel_file, file_exists, zabbix_url, output_file, sheet, hosts,
                   ip_dict, api_calls, written, ret>>
    /\ UNCHANGED sync_vars

\* Lines 100-102: df.to_excel(output_file, index=False); return True.
Save ==
    /\ pc = "save"
    /\ written' = Append(written, [path |-> output_file, frame |-> df])
    /\ log' = Append(log, LogRecord("INFO", "results saved"))
    /\ ret' = "True"
    /\ pc' = "done"
    /\ UNCHANGED <<excel_file, file_exists, zabbix_url, output_file, df, sheet, hosts,
                   ip_dict, update_count, api_calls>>
    /\ UNCHANGED sync_vars

\* Line 100 raising (the directory is not writable), caught at lines 104-106.
SaveRaises ==
    /\ pc = "save"
    /\ Fail("error processing file")
    /\ UNCHANGED <<excel_file, file_exists, zabbix_url, output_file, df, sheet, hosts,
                   ip_dict, update_count, api_calls, written>>
    /\ UNCHANGED sync_vars

Next ==
    \/ CheckFile
    \/ ReadExcel
    \/ ReadExcelRaises
    \/ CheckColumn
    \/ ValidateUrl
    \/ Connect
    \/ HostGet
    \/ RemoteCallRaises
    \/ BuildIndex
    \/ Annotate
    \/ Save
    \/ SaveRaises

Spec == Init /\ [][Next]_vars

\* ------------------------------------------ check_ips_in_zabbix: properties
Logged(msg) == \E i \in 1..Len(log) : log[i].msg = msg
LastLog == log[Len(log)]

\* The positions the code has reached, read off the log it leaves.
ReadDone == pc \notin {"start", "read_excel"} /\ sheet # NoFrame
Indexed == Logged("retrieved unique IP addresses")
Annotated == Logged("saving results")

\* s without its leading and trailing whitespace, stated on positions.
Trimmed(s) ==
    LET keep == {i \in 1..Len(s) : s[i] \notin Whitespace}
    IN IF keep = {} THEN <<>>
       ELSE SubSeq(s, CHOOSE a \in keep : \A b \in keep : a <= b,
                      CHOOSE a \in keep : \A b \in keep : a >= b)

\* A URL with both a scheme and a network location.
WellFormed(url) == urlparse(url).scheme # <<>> /\ urlparse(url).netloc # <<>>

\* The tag a row carried before the annotation pass.
TagBefore(i) ==
    IF "zabbix" \in sheet.columns THEN sheet.rows[i]["zabbix"] ELSE Str(<<>>)

\* C1: once the rows are annotated, every row whose ip_address is a string that
\* is non-empty after trimming is tagged "exist" when the trimmed string is a key
\* of the index and "not exist" otherwise; the written file carries those tags.
C1_TagsFollowIndex ==
    Annotated =>
        /\ Len(df.rows) = Len(sheet.rows)
        /\ \A i \in 1..Len(sheet.rows) :
             LET cell == sheet.rows[i]["ip_address"]
             IN (cell.kind = "str" /\ Trimmed(cell.s) # <<>>) =>
                  /\ df.rows[i]["zabbix"] =
                        IF Trimmed(cell.s) \in DOMAIN ip_dict
                        THEN Str(EXIST) ELSE Str(NOT_EXIST)
                  /\ written # <<>> =>
                        written[1].frame.rows[i]["zabbix"] = df.rows[i]["zabbix"]

C1_Witness ==
    /\ Annotated
    /\ written # <<>>
    /\ \E i, j \in 1..Len(sheet.rows) :
         /\ sheet.rows[i]["ip_address"] = Str(<<" ", "2", " ">>)
         /\ df.rows[i]["zabbix"] = Str(EXIST)
         /\ sheet.rows[j]["ip_address"] = Str(<<"1">>)
         /\ df.rows[j]["zabbix"] = Str(NOT_EXIST)

\* C2: once the rows are annotated, every row whose ip_address cell is empty
\* keeps the tag it had before the pass.
C2_EmptyRowsUnannotated ==
    Annotated =>
        \A i \in 1..Len(sheet.rows) :
            sheet.rows[i]["ip_address"].kind = "nan" =>
                df.rows[i]["zabbix"] = TagBefore(i)

\* The hosts that carry ip on one of their interfaces.
Carriers(ip) ==
    {h \in 1..Len(hosts) :
        /\ hosts[h].has_interfaces
        /\ \E k \in 1..Len(hosts[h].interfaces) :
             /\ hosts[h].interfaces[k].has_ip
             /\ hosts[h].interfaces[k].ip = Str(ip)}

CarriedIps ==
    UNION { { hosts[h].interfaces[k].ip.s :
                k \in {j \in 1..Len(hosts[h].interfaces) :
                          /\ hosts[h].interfaces[j].has_ip
                          /\ hosts[h].interfaces[j].ip.kind = "str"} } :
            h \in {g \in 1..Len(hosts) : hosts[g].has_interfaces} }

\* C3: once the index is built, its keys are exactly the non-empty IP strings
\* carried by some interface of some host, and each key maps to the name of the
\* last host of the reply that carries it.
C3_IndexLastWriteWins ==
    Indexed =>
        /\ DOMAIN ip_dict = {ip \in CarriedIps : ip # <<>>}
        /\ \A ip \in DOMAIN ip_dict :
             \E h \in Carriers(ip) :
                /\ \A g \in Carriers(ip) : g <= h
                /\ ip_dict[ip] = hosts[h].host

C3_Witness ==
    /\ Indexed
    /\ Len(hosts) = 2
    /\ \E ip \in DOMAIN ip_dict :
         /\ {1, 2} \subseteq Carriers(ip)
         /\ ip_dict[ip] = hosts[2].host
    /\ \E ip \in DOMAIN ip_dict : ip_dict[ip] = hosts[1].host
    /\ \E k \in 1..Len(hosts[2].interfaces) : ~hosts[2].interfaces[k].has_ip
    /\ \E k \in 1..Len(hosts[2].interfaces) : hosts[2].interfaces[k].ip = Str(<<>>)

\* C4: a run whose spreadsheet lacks the ip_address column, or whose URL is not
\* well-formed, never writes a file and never returns True; when it ends it has
\* returned False with an error as its last log record, and that record names
\* the column or the URL when that check is the one that failed.
C4_PreconditionFailureFails ==
    ((ReadDone /\ "ip_address" \notin sheet.columns) \/ ~WellFormed(zabbix_url)) =>
        /\ written = <<>>
        /\ ret # "True"
        /\ pc = "done" =>
             /\ ret = "False"
             /\ LastLog.level = "ERROR"
             /\ (ReadDone /\ "ip_address" \notin sheet.columns) =>
                    LastLog.msg = "column ip_address not found"
             /\ (ReadDone /\ "ip_address" \in sheet.columns) =>
                    LastLog.msg = "invalid Zabbix URL"

C4_Witness ==
    /\ pc = "done"
    /\ ReadDone
    /\ "ip_address" \notin sheet.columns
    /\ WellFormed(zabbix_url)
    /\ ret = "False"
    /\ LastLog.msg = "column ip_address not found"

\* C5: in a run whose URL is not well-formed no call on the Zabbix API is made,
\* whatever the spreadsheet holds.
C5_NoRemoteCallOnBadUrl ==
    ~WellFormed(zabbix_url) => api_calls = <<>>

C5_Witness ==
    /\ pc = "done"
    /\ zabbix_url = Str(<<"z", "/", "h">>)
    /\ ReadDone
    /\ Len(sheet.rows) > 0
    /\ LastLog.msg = "invalid Zabbix URL"
    /\ api_calls = <<>>

\* C10: True is returned exactly when the result file was written; it is written
\* at most once, only by a run that passed the existence, column and URL checks,
\* received the host reply and tagged every row, and under a name that is the
\* input name with "_result_<date>" inserted and so differs from the input path.
C10_WriteOnceAfterAllSteps ==
    /\ (ret = "True") <=> (written # <<>>)
    /\ Len(written) <= 1
    /\ written # <<>> =>
         /\ pc = "done"
         /\ file_exists
         /\ "ip_address" \in sheet.columns
         /\ WellFormed(zabbix_url)
         /\ \E i \in 1..Len(api_calls) : api_calls[i] = "host.get"
         /\ Indexed /\ Annotated
         /\ written[1].frame = df
         /\ Len(df.rows) = Len(sheet.rows)
         /\ written[1].path # excel_file
         /\ \E k \in 0..Len(excel_file) :
              written[1].path = SubSeq(excel_file, 1, k) \o ResultInfix \o timestamp
                                  \o SubSeq(excel_file, k + 1, Len(excel_file))

C10_Witness ==
    /\ ret = "True"
    /\ written # <<>>
    /\ Len(sheet.rows) = 2
    /\ excel_file = <<"d", ".", "x">>
    /\ written[1].path = <<"d">> \o ResultInfix \o timestamp \o <<".", "x">>

\* ======================================================================
\* sync.py
\* ======================================================================
Raised == [kind |-> "raised"]
Absent == [kind |-> "absent"]

\* A JSON object from a table key -> value, the Absent entries left out.
Object(f) == Dict([k \in {x \in DOMAIN f : f[x] # Absent} |-> f[k]])

\* Variant of get: x[key], a KeyError on a missing key.
get_strict(x, key, default) ==
    IF x.kind = "raised" THEN Raised
    ELSE IF x.kind # "dict" THEN Raised
    ELSE IF key \in DOMAIN x.d THEN x.d[key] ELSE Raised

\* x.get(key, default): AttributeError unless x is a dict; an exception raised
\* while x was computed goes on.
get(x, key, default) ==
    IF x.kind = "raised" THEN Raised
    ELSE IF x.kind # "dict" THEN Raised
    ELSE IF key \in DOMAIN x.d THEN x.d[key] ELSE default

\* Variant of split_first: the string is not split.
split_keep_all(s) == s

\* s.split("/")[0]
split_first(s) ==
    LET i == find(s, "/")
    IN IF i = 0 THEN s ELSE SubSeq(s, 1, i - 1)

\* Line 116: the ip_address entry.
ip_address_of(data) ==
    LET test == get(data, "ipAddress", PyNone)
        raw == get(data, "ipAddress", Str(<<>>))
    IN IF test.kind = "raised" THEN Raised
       ELSE IF test.kind = "None" \/ (test.kind = "str" /\ test.s = <<>>) THEN PyNone
       ELSE IF raw.kind # "str" THEN Raised
       ELSE Str(split_first(raw.s))

NoDefault == Dict(EmptyDict)

\* Lines 104-119.
extract_device_data(data) ==
    LET identification == get(data, "identification", NoDefault)
        site == get(identification, "site", NoDefault)
        row == [site_name  |-> get(site, "name", PyNone),
                site_type  |-> get(site, "type", PyNone),
                mac        |-> get(identification, "mac", PyNone),
                name       |-> get(identification, "name", PyNone),
                model_name |-> get(identification, "modelName", PyNone),
                role       |-> get(identification, "role", PyNone),
                status     |-> get(get(data, "overview", NoDefault), "status", PyNone),
                ip_address |-> ip_address_of(data)]
    IN IF \E f \in DOMAIN row : row[f].kind = "raised"
       THEN Raised
       ELSE [kind |-> "row", row |-> row]

\* ------------------------------------------------------------- device records
Leaf(path) == Str(<<path>>)

SiteValues ==
    { Absent, PyNone }
    \cup { Object([name |-> n, type |-> ty]) :
             n \in {Absent, Leaf("site.name")}, ty \in {Absent, Leaf("site.type")} }

IdentificationValues ==
    { Absent, PyNone }
    \cup { Object([site |-> s, mac |-> m, name |-> n, modelName |-> mo, role |-> r]) :
             s \in SiteValues,
             m \in {Absent, Leaf("mac")},
             n \in {Absent, Leaf("name")},
             mo \in {Absent, Leaf("modelName")},
             r \in {Absent, Leaf("role")} }

OverviewValues ==
    { Absent, PyNone, Object([status |-> Absent]), Object([status |-> Leaf("status")]) }

IpAddressValues ==
    { Absent, PyNone } \cup { Str(s) : s \in SeqsUpTo({"1", "/"}, MaxIpLen) }

Devices ==
    { Object([identification |-> i, overview |-> o, ipAddress |-> a]) :
        i \in IdentificationValues, o \in OverviewValues, a \in IpAddressValues }

\* The records a device collection is made of in the fetch and export steps.
DeviceSamples ==
    { Object([identification |-> Object([site |-> Object([name |-> Leaf("site.name"),
                                                          type |-> Leaf("site.type")]),
                                         mac |-> Leaf("mac"), name |-> Leaf("name"),
                                         modelName |-> Leaf("modelName"),
                                         role |-> Leaf("role")]),
              overview |-> Object([status |-> Leaf("status")]),
              ipAddress |-> Str(<<"1", "/", "1">>)]),
      Object([identification |-> Absent, overview |-> Absent, ipAddress |-> Absent]),
      Object([identification |-> Object([site |-> PyNone, mac |-> Leaf("mac"),
                                         name |-> Absent, modelName |-> Absent,
                                         role |-> Absent]),
              overview |-> Absent,
              ipAddress |-> PyNone]) }

Collections == { List(l) : l \in SeqsUpTo(DeviceSamples, MaxDevices) }

\* --------------------------------------------------------- get_unms_devices
HTTP_OK == 200

StatusSamples == {200, 404, 500}

BaseUrlSamples == { <<"u">>, <<"u", "/">> }

\* What requests.get produces: a response, or a RequestException (no connection,
\* a timeout, a body response.json() cannot decode).
Responses ==
    { [kind |-> "response", status_code |-> st, json |-> body] :
        st \in StatusSamples, body \in Collections }
    \cup { [kind |-> "RequestException"] }

\* Lines 23-27.
endpoint_of(base_url) ==
    (IF base_url # <<>> /\ base_url[Len(base_url)] = "/"
     THEN SubSeq(base_url, 1, Len(base_url) - 1)
     ELSE base_url) \o <<"/api/v2.1/devices">>

\* Variant of fetch_result: the body is returned whatever the status.
fetch_result_any_status(r) ==
    IF r.kind = "response"
    THEN [ret |-> r.json, out |-> <<>>]
    ELSE [ret |-> PyNone, out |-> <<"Request failed">>]

\* Lines 39-48: the value returned and the lines printed.
fetch_result(r) ==
    IF r.kind = "response"
    THEN IF r.status_code = HTTP_OK
         THEN [ret |-> r.json, out |-> <<>>]
         ELSE [ret |-> PyNone, out |-> <<"Error: Received status code", "Response">>]
    ELSE [ret |-> PyNone, out |-> <<"Request failed">>]

ZbxIdle ==
    /\ pc = "idle"
    /\ excel_file = <<>>
    /\ file_exists = FALSE
    /\ zabbix_url = PyNone
    /\ output_file = <<>>
    /\ df = NoFrame
    /\ sheet = NoFrame
    /\ hosts = <<>>
    /\ ip_dict = EmptyDict
    /\ update_count = 0
    /\ api_calls = <<>>
    /\ written = <<>>
    /\ log = <<>>
    /\ ret = "running"

InitSync ==
    /\ ZbxIdle
    /\ sync_pc = "start"
    /\ requests = <<>>
    /\ response = PyNone
    /\ devices = PyNone
    /\ printed = <<>>
    /\ files = <<>>
    /\ json_data = PyNone
    /\ extracted = PyNone
    /\ sync_ret = "none"

\* Lines 10-48.
GetUnmsDevices ==
    /\ sync_pc = "start"
    /\ \E base_url \in BaseUrlSamples, r \in Responses :
         /\ requests' = Append(requests, endpoint_of(base_url))
         /\ response' = r
         /\ devices' = fetch_result(r).ret
         /\ printed' = printed \o fetch_result(r).out
    /\ sync_pc' = "fetched"
    /\ UNCHANGED <<files, json_data, extracted, sync_ret>>
    /\ UNCHANGED zbx_vars

JsonFileName == <<"unms_devices_", "%Y%m%d_%H%M%S", ".json">>

\* Lines 51-76, called with what get_unms_devices returned.
SaveDevicesToFile ==
    /\ sync_pc = "fetched"
    /\ \E output \in {PyNone, Str(<<"o">>)} :
         IF devices.kind = "None"
         THEN /\ printed' = Append(printed, "No devices to save")
              /\ sync_ret' = PyNone
              /\ UNCHANGED files
         ELSE LET path == IF output.kind = "None" THEN JsonFileName ELSE output.s
              IN /\ files' = Append(files, [path |-> path, content |-> devices])
                 /\ printed' = Append(printed, "Successfully saved")
                 /\ sync_ret' = Str(path)
    /\ sync_pc' = "saved"
    /\ UNCHANGED <<requests, response, devices, json_data, extracted>>
    /\ UNCHANGED zbx_vars

\* Lines 104-119, called on one device record.
ExtractDeviceData ==
    /\ sync_pc = "start"
    /\ \E d \in Devices :
         /\ json_data' = d
         /\ extracted' = extract_device_data(d)
    /\ sync_pc' = "extracted"
    /\ UNCHANGED <<requests, response, devices, printed, files, sync_ret>>
    /\ UNCHANGED zbx_vars

\* What the JSON file of line 125 may be: missing, not JSON, or a JSON value.
JsonFiles ==
    { [kind |-> "missing"], [kind |-> "invalid"] }
    \cup Collections \cup DeviceSamples \cup { Str(<<"s">>), List(<<Str(<<"s">>)>>) }

\* Lines 131-137: the rows, or Raised when extract_device_data raises.
extract_all(data) ==
    LET items == IF data.kind = "list"
                 THEN [i \in 1..Len(data.l) |-> extract_device_data(data.l[i])]
                 ELSE <<extract_device_data(data)>>
    IN IF \E i \in 1..Len(items) : items[i].kind = "raised"
       THEN Raised
       ELSE List([i \in 1..Len(items) |-> items[i].row])

ExcelFileName == <<"device_data_export.xlsx">>

\* Lines 122-145.
SaveDeviceDataToExcel ==
    /\ sync_pc = "start"
    /\ \E content \in JsonFiles, writable \in BOOLEAN :
         /\ json_data' = content
         /\ IF content.kind = "missing"
            THEN /\ printed' = Append(printed, "Please save your JSON data")
                 /\ sync_ret' = PyNone
                 /\ UNCHANGED <<extracted, files>>
            ELSE IF content.kind = "invalid"
            THEN /\ sync_ret' = Raised
                 /\ UNCHANGED <<extracted, files, printed>>
            ELSE IF extract_all(content).kind = "raised"
            THEN /\ sync_ret' = Raised
                 /\ UNCHANGED <<extracted, files, printed>>
            ELSE /\ extracted' = extract_all(content)
                 /\ IF writable
                    THEN /\ files' = Append(files, [path |-> ExcelFileName,
                                                    content |-> extract_all(content)])
                         /\ printed' = Append(printed, "Data successfully exported")
                         /\ sync_ret' = PyNone
                    ELSE /\ sync_ret' = Raised
                         /\ UNCHANGED <<files, printed>>
    /\ sync_pc' = "exported"
    /\ UNCHANGED <<requests, response, devices>>
    /\ UNCHANGED zbx_vars

NextSync ==
    \/ GetUnmsDevices
    \/ SaveDevicesToFile
    \/ ExtractDeviceData
    \/ SaveDeviceDataToExcel

SpecSync == InitSync /\ [][NextSync]_vars

\* ------------------------------------------------------- sync.py: properties
Has(x, key) == x.kind = "dict" /\ key \in DOMAIN x.d

\* Whether every key of the path is there, each one inside a mapping.
RECURSIVE PathPresent(_, _)
PathPresent(x, path) ==
    IF path = <<>> THEN TRUE
    ELSE Has(x, Head(path)) /\ PathPresent(x.d[Head(path)], Tail(path))

RECURSIVE PathValue(_, _)
PathValue(x, path) ==
    IF path = <<>> THEN x ELSE PathValue(x.d[Head(path)], Tail(path))

FieldPath ==
    [site_name  |-> <<"identification", "site", "name">>,
     site_type  |-> <<"identification", "site", "type">>,
     mac        |-> <<"identification", "mac">>,
     name       |-> <<"identification", "name">>,
     model_name |-> <<"identification", "modelName">>,
     role       |-> <<"identification", "role">>,
     status     |-> <<"overview", "status">>,
     ip_address |-> <<"ipAddress">>]

FieldNames == {"site_name", "site_type", "mac", "name", "model_name", "role",
               "status", "ip_address"}

ContainerPaths == { <<"identification">>, <<"identification", "site">>, <<"overview">> }

\* A record whose keys may be missing but whose containers, where present, are
\* mappings.
KeysOnlyMissing(data) ==
    /\ data.kind = "dict"
    /\ \A p \in ContainerPaths : PathPresent(data, p) => PathValue(data, p).kind = "dict"

SomeKeyMissing(data) ==
    \E f \in FieldNames : ~PathPresent(data, FieldPath[f])

\* r is the part of s before its first "/", the whole of s when it has none.
BeforeFirstSlash(r, s) ==
    /\ Len(r) <= Len(s)
    /\ r = SubSeq(s, 1, Len(r))
    /\ \A i \in 1..Len(r) : r[i] # "/"
    /\ Len(r) = Len(s) \/ s[Len(r) + 1] = "/"

IpAddressField(data, value) ==
    IF Has(data, "ipAddress") /\ data.d["ipAddress"].kind = "str"
       /\ data.d["ipAddress"].s # <<>>
    THEN value.kind = "str" /\ BeforeFirstSlash(value.s, data.d["ipAddress"].s)
    ELSE value = PyNone

\* C6: get_unms_devices makes exactly one request; it returns the parsed body on
\* status 200 and prints nothing, and on another status or a RequestException it
\* prints a diagnostic and returns None; save_devices_to_file, given that None,
\* writes no file.
C6_FetchOnceOrFailureSignal ==
    /\ sync_pc \in {"fetched", "saved"} =>
         /\ Len(requests) = 1
         /\ IF response.kind = "response" /\ response.status_code = 200
            THEN /\ devices = response.json
                 /\ \A i \in 1..Len(printed) :
                      printed[i] \notin {"Error: Received status code", "Request failed"}
            ELSE /\ devices = PyNone
                 /\ printed # <<>>
                 /\ printed[1] \in {"Error: Received status code", "Request failed"}
    /\ (sync_pc = "saved" /\ devices = PyNone) =>
         /\ files = <<>>
         /\ sync_ret = PyNone
         /\ printed[Len(printed)] = "No devices to save"

C6_Witness ==
    /\ sync_pc = "saved"
    /\ response.kind = "response"
    /\ response.status_code = 404
    /\ Len(response.json.l) > 0
    /\ devices = PyNone
    /\ files = <<>>

\* C7: neither top-level routine lets an exception out, and each failure leaves
\* a message: check_ips_in_zabbix ends with True, or with False after an error
\* record; save_device_data_to_excel ends with None, after a printed line.
C7_NoFailureEscapes ==
    /\ pc = "done" =>
         /\ ret \in {"True", "False"}
         /\ ret = "False" => LastLog.level = "ERROR"
    /\ sync_pc = "exported" =>
         /\ sync_ret = PyNone
         /\ printed # <<>>

\* C7, the half about check_ips_in_zabbix alone.
C7_CheckIpsNeverRaises ==
    pc = "done" =>
        /\ ret \in {"True", "False"}
        /\ ret = "False" => (LastLog.level = "ERROR" /\ written = <<>>)

C9_IpBeforeFirstSlash ==
    (sync_pc = "extracted" /\ extracted.kind = "row") =>
        LET value == extracted.row["ip_address"]
        IN IF Has(json_data, "ipAddress") /\ json_data.d["ipAddress"].kind = "str"
              /\ json_data.d["ipAddress"].s # <<>>
           THEN /\ value.kind = "str"
                /\ \E k \in 0..Len(json_data.d["ipAddress"].s) :
                     /\ value.s = SubSeq(json_data.d["ipAddress"].s, 1, k)
                     /\ \A i \in 1..k : json_data.d["ipAddress"].s[i] # "/"
                     /\ k < Len(json_data.d["ipAddress"].s) =>
                            json_data.d["ipAddress"].s[k + 1] = "/"
           ELSE value = PyNone

C9_Witness ==
    /\ sync_pc = "extracted"
    /\ extracted.kind = "row"
    /\ Has(json_data, "ipAddress")
    /\ json_data.d["ipAddress"] = Str(<<"1", "/", "1">>)
    /\ extracted.row["ip_address"] = Str(<<"1">>)

====
